---------------------------- MODULE Spec2Model ----------------------------
(***************************************************************************)
(* A model of src/data_cleaning.py: the tracking-data cleaning pipeline    *)
(* (position filter, chunked tracking ingest, pass-play filter, play       *)
(* context merge, game-clock conversion, pairwise player distances) and    *)
(* the independent player-play (route) filter.                             *)
(*                                                                         *)
(* Tables are pandas DataFrames: a sequence of rows, each row a record of  *)
(* its columns plus "idx", the row's index label.  The empty DataFrame     *)
(* without columns, pd.DataFrame(), is NoColumns.                          *)
(*                                                                         *)
(* A cell is a record [t, v]:                                              *)
(*    t = "int": the integer v           t = "nan": the missing value NaN  *)
(*    t = "str": the text of integer v   t = "txt": the non-numeric text   *)
(*                                                  numbered v             *)
(* In a CSV file every cell is text: "str", "txt" or empty ("nan").        *)
(***************************************************************************)
EXTENDS Integers, Sequences, FiniteSets, Bags, TLC

VARIABLES
    pc,                  \* position of the operation under way
    err,                 \* the exception that ended it, or "none"
    game_clock,          \* convert_game_clock_to_seconds: the argument
    clock_result,        \* convert_game_clock_to_seconds: the value returned
    df,                  \* calculate_player_distances: the argument
    distance_metrics,    \* calculate_player_distances: the table returned
    player_play_csv,     \* content of player_play.csv
    player_play_data,    \* filter_player_play_data: the table returned
    plays_csv,           \* content of plays.csv
    tracking_data,       \* main: table returned by filter_tracking_data
    pass_play_data,      \* main: table returned by filter_for_pass_plays
    final_tracking_data, \* main: the enriched tracking table
    valid_nfl_ids,       \* main: array returned by filter_players_by_position
    written,             \* main: the output files written by this run
    tracking_file,       \* filter_tracking_data: content of tracking_week_<week>.csv
    chunk_size,          \* filter_tracking_data: its chunk_size argument
    week,                \* filter_tracking_data: the loop variable
    offset,              \* filter_tracking_data: rows of the week's file already read
    week_data,           \* filter_tracking_data: the week's filtered chunks
    all_weeks_data,      \* filter_tracking_data: the weeks concatenated so far
    one_block_data       \* what the files read so far give, each read as one block

vars == <<pc, err, game_clock, clock_result, df, distance_metrics,
          player_play_csv, player_play_data, plays_csv, tracking_data,
          pass_play_data, final_tracking_data, valid_nfl_ids, written,
          tracking_file, chunk_size, week, offset, week_data, all_weeks_data,
          one_block_data>>

---------------------------------------------------------------------------
(* Bounds of the model *)

MaxClockLen == 4
MaxDistRows == 3
MaxRouteRows == 2
NumWeeks == 2
MaxFileRows == 2
MaxChunk == 3
MaxPlayers == 2
MaxPlays == 2
MaxJoinRows == 2
MainFileRows == 1

---------------------------------------------------------------------------
(* Cells *)

NaN == [t |-> "nan", v |-> 0]
Int_(n) == [t |-> "int", v |-> n]
Str(n) == [t |-> "str", v |-> n]
Label(k) == [t |-> "txt", v |-> k]
Txt == Label(0)

IsNull(c) == c.t = "nan"

RECURSIVE SeqSum(_)
SeqSum(s) == IF s = <<>> THEN 0 ELSE Head(s) + SeqSum(Tail(s))

RECURSIVE Flatten(_)
Flatten(ss) == IF ss = <<>> THEN <<>> ELSE Head(ss) \o Flatten(Tail(ss))

\* Every sequence over S of length at most n.
SeqsUpTo(S, n) == UNION {[1..k -> S] : k \in 0..n}

\* The variables a specification does not use keep these values.
Idle == "idle"
\* pd.DataFrame(): the empty table that has no columns either.
NoColumns == <<[columns |-> 0]>>

---------------------------------------------------------------------------
(* convert_game_clock_to_seconds *)

Digits == {"0", "1", "2", "3", "4", "5", "6", "7", "8", "9"}

DigitVal(ch) ==
    CASE ch = "0" -> 0 [] ch = "1" -> 1 [] ch = "2" -> 2 [] ch = "3" -> 3
      [] ch = "4" -> 4 [] ch = "5" -> 5 [] ch = "6" -> 6 [] ch = "7" -> 7
      [] ch = "8" -> 8 [] ch = "9" -> 9

\* A float NaN where a text is expected (a missing gameClock).
NullClock == <<"NaN">>

\* str.split(':'): the parts between the colons; always at least one part.
RECURSIVE Split(_, _)
Split(s, cur) ==
    IF s = <<>> THEN <<cur>>
    ELSE IF Head(s) = ":" THEN <<cur>> \o Split(Tail(s), <<>>)
    ELSE Split(Tail(s), Append(cur, Head(s)))

RECURSIVE LStrip(_)
LStrip(s) == IF s # <<>> /\ Head(s) = " " THEN LStrip(Tail(s)) ELSE s

RECURSIVE RStrip(_)
RStrip(s) ==
    IF s # <<>> /\ s[Len(s)] = " " THEN RStrip(SubSeq(s, 1, Len(s) - 1)) ELSE s

RECURSIVE DigitsVal(_, _)
DigitsVal(s, acc) ==
    IF s = <<>> THEN acc ELSE DigitsVal(Tail(s), acc * 10 + DigitVal(Head(s)))

\* int(text): surrounding blanks stripped, an optional sign, then digits only.
\* ok = FALSE stands for the ValueError.
PyInt(s) ==
    LET t == RStrip(LStrip(s))
        neg == t # <<>> /\ Head(t) = "-"
        d == IF neg THEN Tail(t) ELSE t
    IN  IF d = <<>> \/ \E i \in 1..Len(d) : d[i] \notin Digits
        THEN [ok |-> FALSE, val |-> 0]
        ELSE [ok |-> TRUE, val |-> IF neg THEN 0 - DigitsVal(d, 0) ELSE DigitsVal(d, 0)]

\* A conversion that unpacks the first two parts whatever their number.
convert_game_clock_first_two(gc) ==
    IF gc = NullClock
    THEN NaN
    ELSE LET parts == Split(gc, <<>>)
         IN  IF Len(parts) < 2
             THEN NaN
             ELSE LET minutes == PyInt(parts[1])
                      seconds == PyInt(parts[2])
                  IN  IF minutes.ok /\ seconds.ok
                      THEN Int_(minutes.val * 60 + seconds.val)
                      ELSE NaN

convert_game_clock_to_seconds(gc) ==
    IF gc = NullClock
    THEN NaN                               \* AttributeError: float has no split
    ELSE LET parts == Split(gc, <<>>)
         IN  IF Len(parts) # 2
             THEN NaN                      \* ValueError: unpacking
             ELSE LET minutes == PyInt(parts[1])
                      seconds == PyInt(parts[2])
                  IN  IF minutes.ok /\ seconds.ok
                      THEN Int_(minutes.val * 60 + seconds.val)
                      ELSE NaN             \* ValueError: int()

ClockAlphabet == {"0", "5", ":", "-", " ", "b"}

ClockExamples ==
    { <<"1", "5", ":", "0", "0">>, <<"0", "0", ":", "4", "5">>, <<"2", ":", "5">>,
      <<"b", "a", "d">>, <<"1", ":", "2", ":", "3">>, NullClock }

ClockInputs == SeqsUpTo(ClockAlphabet, MaxClockLen) \cup ClockExamples

---------------------------------------------------------------------------
(* calculate_player_distances *)

\* Integer square root (floor), by bisection.
RECURSIVE ISqrtB(_, _, _)
ISqrtB(n, lo, hi) ==
    IF lo >= hi THEN lo
    ELSE LET mid == (lo + hi + 1) \div 2
         IN  IF mid * mid <= n THEN ISqrtB(n, mid, hi) ELSE ISqrtB(n, lo, mid - 1)

ISqrt(n) == ISqrtB(n, 0, IF n < 46340 THEN n ELSE 46340)

\* np.sqrt((x1 - x2) ** 2 + (y1 - y2) ** 2), in hundredths (rounded down).
Distance(x1, y1, x2, y2) ==
    ISqrt(((x1 - x2) * (x1 - x2) + (y1 - y2) * (y1 - y2)) * 10000)

RECURSIVE SeqMin(_)
SeqMin(s) ==
    IF Len(s) = 1 THEN s[1]
    ELSE LET m == SeqMin(Tail(s)) IN IF Head(s) <= m THEN Head(s) ELSE m

RECURSIVE SeqMax(_)
SeqMax(s) ==
    IF Len(s) = 1 THEN s[1]
    ELSE LET m == SeqMax(Tail(s)) IN IF Head(s) >= m THEN Head(s) ELSE m

\* np.mean, in hundredths.
Mean(s) == SeqSum(s) \div Len(s)

\* np.std: the population standard deviation sqrt(mean((d - mean(d)) ** 2)),
\* which is sqrt(n * sum(d ** 2) - sum(d) ** 2) / n.
StdDev(s) ==
    LET n == Len(s)
        sq == [k \in 1..n |-> s[k] * s[k]]
    IN  ISqrt(n * SeqSum(sq) - SeqSum(s) * SeqSum(s)) \div n

GroupKey(r) == <<r.gameId, r.playId, r.frameId>>

\* groupby drops the rows with a missing key (dropna=True).
HasKey(r) == ~IsNull(r.gameId) /\ ~IsNull(r.playId) /\ ~IsNull(r.frameId)

KeyLess(a, b) ==
    \/ a[1].v < b[1].v
    \/ a[1].v = b[1].v /\ a[2].v < b[2].v
    \/ a[1].v = b[1].v /\ a[2].v = b[2].v /\ a[3].v < b[3].v

\* The group keys in groupby's order (sort=True).
RECURSIVE SortKeys(_)
SortKeys(K) ==
    IF K = {} THEN <<>>
    ELSE LET m == CHOOSE k \in K : \A o \in K \ {k} : KeyLess(k, o)
         IN  <<m>> \o SortKeys(K \ {m})

GroupKeys(t) == SortKeys({GroupKey(t[i]) : i \in {j \in 1..Len(t) : HasKey(t[j])}})

\* frame_group: the rows of one key, in the order of the table.
FrameGroup(t, k) == SelectSeq(t, LAMBDA r : HasKey(r) /\ GroupKey(r) = k)

\* An inner loop that does not skip j = i.
RECURSIVE DistancesToAll(_, _, _)
DistancesToAll(frame_players, i, j) ==
    IF j > Len(frame_players) THEN <<>>
    ELSE <<Distance(frame_players[i].x, frame_players[i].y,
                    frame_players[j].x, frame_players[j].y)>>
         \o DistancesToAll(frame_players, i, j + 1)

\* distances_for_player: the inner loop over j, skipping j = i.
RECURSIVE DistancesForPlayer(_, _, _)
DistancesForPlayer(frame_players, i, j) ==
    IF j > Len(frame_players) THEN <<>>
    ELSE (IF i # j
          THEN <<Distance(frame_players[i].x, frame_players[i].y,
                          frame_players[j].x, frame_players[j].y)>>
          ELSE <<>>)
         \o DistancesForPlayer(frame_players, i, j + 1)

\* The dict appended for player i of a group; np.min of an empty list raises.
PlayerSummary(frame_players, i) ==
    LET d == DistancesForPlayer(frame_players, i, 1)
    IN  [gameId |-> frame_players[i].gameId, playId |-> frame_players[i].playId,
         frameId |-> frame_players[i].frameId, nflId |-> frame_players[i].nflId,
         min_distance |-> Int_(SeqMin(d)), max_distance |-> Int_(SeqMax(d)),
         mean_distance |-> Int_(Mean(d)), std_distance |-> Int_(StdDev(d))]

GroupSummaries(frame_players) ==
    [i \in 1..Len(frame_players) |-> PlayerSummary(frame_players, i)]

\* The table returned, or the exception raised: ValueError from np.min of the
\* empty distance list of a one-row group.
calculate_player_distances(t) ==
    LET keys == GroupKeys(t)
    IN  IF \E n \in 1..Len(keys) : Len(FrameGroup(t, keys[n])) = 1
        THEN [error |-> "ValueError", table |-> NoColumns]
        ELSE IF keys = <<>>
        THEN [error |-> "none", table |-> NoColumns]       \* pd.DataFrame([])
        ELSE [error |-> "none",
              table |-> Flatten([n \in 1..Len(keys) |->
                                    GroupSummaries(FrameGroup(t, keys[n]))])]

DistFrames == {1, 2}
DistPlayers == {1, 2}
DistPoints == {<<0, 0>>, <<3, 4>>, <<3, 0>>}

DistRow(f, p, xy) ==
    [gameId |-> Int_(1), playId |-> Int_(1), frameId |-> Int_(f), nflId |-> Int_(p),
     x |-> xy[1], y |-> xy[2]]

DistRows == {DistRow(f, p, xy) : f \in DistFrames, p \in DistPlayers, xy \in DistPoints}

DistTables == SeqsUpTo(DistRows, MaxDistRows)

---------------------------------------------------------------------------
(* Reading a CSV file and coercing its identifier columns *)

\* What stands for a file that does not exist.
NoFile == <<[exists |-> FALSE]>>

\* The content of a file the run has not read yet.
NotRead == <<[read |-> FALSE]>>

\* pd.read_csv infers a column's dtype from the rows it parses together: a
\* column holding a non-numeric text stays text (object) in every row, any
\* other column becomes numeric.
InferCell(rows, col, c) ==
    IF c.t = "str" /\ \A i \in 1..Len(rows) : rows[i][col].t # "txt"
    THEN Int_(c.v)
    ELSE c

\* The rows parsed together, labelled from first; idcols are the columns that
\* hold numbers in a clean file.
ParseRows(rows, idcols, first) ==
    [i \in 1..Len(rows) |->
        [c \in DOMAIN rows[i] \cup {"idx"} |->
            IF c = "idx" THEN first + i - 1
            ELSE IF c \in idcols THEN InferCell(rows, c, rows[i][c])
            ELSE rows[i][c]]]

\* pd.to_numeric(errors='coerce') of one value.
ToNumeric(c) == IF c.t \in {"int", "str"} THEN Int_(c.v) ELSE NaN

\* pd.to_numeric(column, errors='coerce').dropna().astype(int): a Series that
\* holds only the labels whose value parsed.
CoercedSeries(t, col) ==
    LET kept == {i \in 1..Len(t) : ~IsNull(ToNumeric(t[i][col]))}
    IN  [l \in {t[i].idx : i \in kept} |->
            ToNumeric((CHOOSE r \in {t[i] : i \in kept} : r.idx = l)[col])]

\* An assignment that keeps only the rows the Series has a label for.
AssignDroppingRows(t, col, series) ==
    LET kept == SelectSeq(t, LAMBDA r : r.idx \in DOMAIN series)
    IN  [i \in 1..Len(kept) |-> [kept[i] EXCEPT ![col] = series[kept[i].idx]]]

\* frame[col] = series: the Series is aligned on the frame's index, and a row
\* whose label the Series lacks gets NaN; no row is removed.
AssignColumn(t, col, series) ==
    [i \in 1..Len(t) |->
        [t[i] EXCEPT ![col] = IF t[i].idx \in DOMAIN series
                              THEN series[t[i].idx] ELSE NaN]]

\* frame[col] = pd.to_numeric(frame[col], errors='coerce').dropna().astype(int)
CoerceId(t, col) == AssignColumn(t, col, CoercedSeries(t, col))

Project(t, cols) == [i \in 1..Len(t) |-> [c \in cols \cup {"idx"} |-> t[i][c]]]

---------------------------------------------------------------------------
(* filter_player_play_data *)

RouteColumns == {"gameId", "playId", "nflId", "routeRan"}

filter_player_play_data(csv) ==
    IF csv = NoFile
    THEN [error |-> "FileNotFoundError", table |-> NoColumns]
    ELSE LET player_play_df ==
                 CoerceId(CoerceId(CoerceId(
                     ParseRows(csv, {"gameId", "playId", "nflId"}, 0),
                     "gameId"), "playId"), "nflId")
         IN  [error |-> "none",
              table |-> Project(SelectSeq(player_play_df,
                                          LAMBDA r : ~IsNull(r.routeRan)),
                                RouteColumns)]

RouteRow(g, p, n, r) ==
    [gameId |-> g, playId |-> p, nflId |-> n, routeRan |-> r, teamAbbr |-> Label(7)]

RouteRows ==
    {RouteRow(g, Str(1), n, r) :
        g \in {Str(1), Txt}, n \in {Str(1), Str(2), NaN}, r \in {Label(1), NaN}}

RouteFiles == SeqsUpTo(RouteRows, MaxRouteRows)

---------------------------------------------------------------------------
(* filter_tracking_data *)

BEFORE_SNAP == Label(1)
SNAP == Label(2)
AFTER_SNAP == Label(3)

\* Series.isin(values) for numeric values: a number matches the equal number,
\* NaN matches NaN, a text matches no number.
IsIn(c, values) ==
    \/ c.t = "int" /\ Int_(c.v) \in values
    \/ c.t = "nan" /\ NaN \in values

\* pd.concat(frames, ignore_index=True)
Concat(frames) ==
    LET rows == Flatten(frames)
    IN  [i \in 1..Len(rows) |-> [rows[i] EXCEPT !.idx = i - 1]]

TagWeek(t, w) ==
    [i \in 1..Len(t) |-> [c \in DOMAIN t[i] \cup {"week"} |->
                             IF c = "week" THEN w ELSE t[i][c]]]

\* A filter that leaves the frame type unchecked.
FilterChunkAnyFrame(chunk, valid) ==
    CoerceId(CoerceId(CoerceId(
        SelectSeq(chunk, LAMBDA r : IsIn(r.nflId, valid)),
        "gameId"), "playId"), "nflId")

\* filtered_chunk of one chunk, before the week is tagged.
FilterChunk(chunk, valid) ==
    CoerceId(CoerceId(CoerceId(
        SelectSeq(chunk, LAMBDA r : /\ IsIn(r.nflId, valid)
                                    /\ r.frameType \in {BEFORE_SNAP, SNAP}),
        "gameId"), "playId"), "nflId")

TrackingIdColumns == {"gameId", "playId", "frameId", "nflId"}

\* What one chunk adds to week_data: nothing when every row is filtered out.
ChunkFrames(rows, first, valid, w) ==
    LET filtered_chunk == FilterChunk(ParseRows(rows, TrackingIdColumns, first), valid)
    IN  IF filtered_chunk = <<>> THEN <<>> ELSE <<TagWeek(filtered_chunk, w)>>

\* What one week adds to all_weeks_data.
WeekFrames(frames) == IF frames = <<>> THEN <<>> ELSE <<Concat(frames)>>

---------------------------------------------------------------------------
(* filter_players_by_position *)

QB == Label(11)
RB == Label(12)
WR == Label(13)
TE == Label(14)
T == Label(15)
G == Label(16)
C == Label(17)
K == Label(18)

valid_positions == {QB, RB, WR, TE, T, G, C}

\* The array returned: the unique values of the nflId column after the
\* coercion, NaN among them when a selected player's nflId does not parse.
filter_players_by_position(csv, positions) ==
    IF csv = NoFile
    THEN [error |-> "FileNotFoundError", ids |-> {}]
    ELSE LET players_df == ParseRows(csv, {"nflId"}, 0)
             filtered_players_df ==
                 CoerceId(SelectSeq(players_df, LAMBDA r : r.position \in positions),
                          "nflId")
         IN  [error |-> "none",
              ids |-> {filtered_players_df[i].nflId : i \in 1..Len(filtered_players_df)}]

---------------------------------------------------------------------------
(* DataFrame.merge *)

\* The value a left join gives a column of the right table in a row that has
\* no match: NaN (for a text column such as gameClock, a float NaN).
Missing(col) == IF col = "gameClock" THEN NullClock ELSE NaN

KeysEqual(l, r, on) == \A c \in on : l[c] = r[c]

\* left.merge(right, on=on, how=how): for each left row in order, one row per
\* matching right row in order (NaN keys match NaN keys); with how = "left" a
\* left row without a match is kept once, the right columns missing.  rcols are
\* the columns of right other than the keys.  The result has a fresh index.
Merge(left, right, on, rcols, how) ==
    LET joined(l) ==
            LET m == SelectSeq(right, LAMBDA r : KeysEqual(l, r, on))
            IN  IF m = <<>>
                THEN IF how = "left"
                     THEN <<[c \in DOMAIN l \cup rcols |->
                               IF c \in DOMAIN l THEN l[c] ELSE Missing(c)]>>
                     ELSE <<>>
                ELSE [k \in 1..Len(m) |->
                         [c \in DOMAIN l \cup rcols |->
                             IF c \in DOMAIN l THEN l[c] ELSE m[k][c]]]
        rows == Flatten([i \in 1..Len(left) |-> joined(left[i])])
    IN  [i \in 1..Len(rows) |-> [rows[i] EXCEPT !.idx = i - 1]]

---------------------------------------------------------------------------
(* filter_for_pass_plays *)

BoolTokens == {"True", "true", "TRUE", "False", "false", "FALSE"}

\* pd.read_csv on the isDropback column: when every non-empty cell is a boolean
\* token the cells become booleans (and the empty ones NaN), otherwise the
\* non-empty cells stay the texts they are.
InferDropback(rows, s) ==
    IF s = "" THEN [t |-> "nan", s |-> ""]
    ELSE IF \A i \in 1..Len(rows) : rows[i].isDropback \in BoolTokens \cup {""}
    THEN [t |-> "bool", s |-> IF s \in {"True", "true", "TRUE"} THEN "True" ELSE "False"]
    ELSE [t |-> "text", s |-> s]

\* str.upper on the texts of the model.
Upper(s) ==
    CASE s \in {"True", "true", "TRUE"} -> "TRUE"
      [] s \in {"False", "false", "FALSE"} -> "FALSE"
      [] s = "yes" -> "YES"
      [] OTHER -> s

\* A normalisation whose fillna takes a missing value for a dropback.
NormalizeMissingTrue(c) ==
    CASE c.t = "bool" -> IF c.s = "True" THEN "TRUE" ELSE "FALSE"
      [] c.t = "nan" -> "TRUE"
      [] OTHER -> Upper(c.s)

\* .replace({True: 'TRUE', False: 'FALSE'}).fillna('FALSE').astype(str).str.upper()
NormalizeDropback(c) ==
    CASE c.t = "bool" -> IF c.s = "True" THEN "TRUE" ELSE "FALSE"
      [] c.t = "nan" -> "FALSE"
      [] OTHER -> Upper(c.s)

\* plays.csv as read: the key columns inferred, isDropback inferred.
ReadPlays(csv) ==
    LET t == ParseRows(csv, {"gameId", "playId"}, 0)
    IN  [i \in 1..Len(t) |->
            [t[i] EXCEPT !.isDropback = InferDropback(csv, csv[i].isDropback)]]

dropback_play_ids(csv) ==
    LET plays_df == ReadPlays(csv)
    IN  CoerceId(CoerceId(
            Project(SelectSeq(plays_df,
                              LAMBDA r : NormalizeDropback(r.isDropback) = "TRUE"),
                    {"gameId", "playId"}),
            "gameId"), "playId")

filter_for_pass_plays(csv, tracking) ==
    IF csv = NoFile
    THEN [error |-> "FileNotFoundError", table |-> NoColumns]
    ELSE IF tracking = NoColumns
    THEN [error |-> "KeyError", table |-> NoColumns]
    ELSE [error |-> "none",
          table |-> Merge(tracking, dropback_play_ids(csv), {"gameId", "playId"},
                          {}, "inner")]

---------------------------------------------------------------------------
(* merge_with_plays *)

\* relevant_columns other than the keys; quarter stands for the context
\* columns that are only carried along.
ContextColumns == {"quarter", "gameClock"}

\* A merge with the plays that keeps only the rows that have a play.
merge_with_plays_inner(csv, tracking) ==
    IF csv = NoFile
    THEN [error |-> "FileNotFoundError", table |-> NoColumns]
    ELSE IF tracking = NoColumns
    THEN [error |-> "KeyError", table |-> NoColumns]
    ELSE LET plays_df ==
                 CoerceId(CoerceId(
                     Project(ParseRows(csv, {"gameId", "playId"}, 0),
                             {"gameId", "playId"} \cup ContextColumns),
                     "gameId"), "playId")
         IN  [error |-> "none",
              table |-> Merge(tracking, plays_df, {"gameId", "playId"},
                              ContextColumns, "inner")]

merge_with_plays(csv, tracking) ==
    IF csv = NoFile
    THEN [error |-> "FileNotFoundError", table |-> NoColumns]
    ELSE IF tracking = NoColumns
    THEN [error |-> "KeyError", table |-> NoColumns]
    ELSE LET plays_df ==
                 CoerceId(CoerceId(
                     Project(ParseRows(csv, {"gameId", "playId"}, 0),
                             {"gameId", "playId"} \cup ContextColumns),
                     "gameId"), "playId")
         IN  [error |-> "none",
              table |-> Merge(tracking, plays_df, {"gameId", "playId"},
                              ContextColumns, "left")]

---------------------------------------------------------------------------
(* main: the clock column, the distance join and the projection *)

\* final_tracking_data['gameClock'].apply(convert_game_clock_to_seconds)
AddClockSeconds(t) ==
    [i \in 1..Len(t) |->
        [c \in DOMAIN t[i] \cup {"gameClockInSeconds"} |->
            IF c = "gameClockInSeconds"
            THEN convert_game_clock_to_seconds(t[i].gameClock)
            ELSE t[i][c]]]

StatColumns == {"min_distance", "max_distance", "mean_distance", "std_distance"}

\* The columns of tracking_columns the model carries.
tracking_columns ==
    {"gameId", "playId", "nflId", "frameId", "frameType", "x", "y", "week"}
        \cup ContextColumns \cup {"gameClockInSeconds"} \cup StatColumns

\* The summary rows under an index, as a DataFrame has them.
Indexed(rows) ==
    [i \in 1..Len(rows) |->
        [c \in DOMAIN rows[i] \cup {"idx"} |-> IF c = "idx" THEN i - 1 ELSE rows[i][c]]]

\* Lines 131 to 138: the left join with the summaries and the projection to the
\* columns of tracking_columns that are present.
JoinDistances(t, metrics) ==
    IF metrics = NoColumns
    THEN [error |-> "KeyError", table |-> NoColumns]
    ELSE LET merged == Merge(t, Indexed(metrics),
                             {"gameId", "playId", "frameId", "nflId"},
                             StatColumns, "left")
         IN  [error |-> "none",
              table |-> [i \in 1..Len(merged) |->
                            [c \in (DOMAIN merged[i] \cap tracking_columns) \cup {"idx"}
                                |-> merged[i][c]]]]

---------------------------------------------------------------------------
(* Variable groups *)

clockVars == <<game_clock, clock_result>>
distVars == <<df, distance_metrics>>
routeVars == <<player_play_csv, player_play_data>>
mainVars == <<plays_csv, tracking_data, pass_play_data, final_tracking_data,
              valid_nfl_ids, written>>
ingestVars == <<tracking_file, chunk_size, week, offset, week_data, all_weeks_data,
                one_block_data>>

ClockIdle == game_clock = Idle /\ clock_result = Idle
DistIdle == df = Idle /\ distance_metrics = Idle
RouteIdle == player_play_csv = Idle /\ player_play_data = Idle
MainIdle ==
    /\ plays_csv = Idle /\ tracking_data = Idle /\ pass_play_data = Idle
    /\ final_tracking_data = Idle /\ valid_nfl_ids = Idle /\ written = Idle
IngestIdle ==
    /\ tracking_file = Idle /\ chunk_size = Idle /\ week = Idle
    /\ offset = Idle /\ week_data = Idle /\ all_weeks_data = Idle
    /\ one_block_data = Idle

---------------------------------------------------------------------------
(* SpecClock: convert_game_clock_to_seconds applied to one value *)

InitClock ==
    /\ pc = "clock_called" /\ err = "none"
    /\ game_clock \in ClockInputs /\ clock_result = Idle
    /\ DistIdle /\ RouteIdle /\ MainIdle /\ IngestIdle

ConvertGameClock ==
    /\ pc = "clock_called"
    /\ clock_result' = convert_game_clock_to_seconds(game_clock)
    /\ pc' = "clock_returned"
    /\ UNCHANGED <<err, game_clock, distVars, routeVars, mainVars, ingestVars>>

NextClock == ConvertGameClock

SpecClock == InitClock /\ [][NextClock]_vars

---------------------------------------------------------------------------
(* SpecDist: calculate_player_distances applied to one table *)

InitDist ==
    /\ pc = "distances_called" /\ err = "none"
    /\ df \in DistTables /\ distance_metrics = Idle
    /\ ClockIdle /\ RouteIdle /\ MainIdle /\ IngestIdle

CalculatePlayerDistances ==
    /\ pc = "distances_called"
    /\ LET r == calculate_player_distances(df)
       IN  IF r.error = "none"
           THEN /\ distance_metrics' = r.table
                /\ pc' = "distances_returned"
                /\ err' = err
           ELSE /\ err' = r.error
                /\ pc' = "aborted"
                /\ distance_metrics' = distance_metrics
    /\ UNCHANGED <<df, clockVars, routeVars, mainVars, ingestVars>>

NextDist == CalculatePlayerDistances

SpecDist == InitDist /\ [][NextDist]_vars

---------------------------------------------------------------------------
(* Claims on convert_game_clock_to_seconds *)

\* The positions of the colons of a text.
Colons(gc) == {k \in 1..Len(gc) : gc[k] = ":"}

\* The text has the form MM:SS and both parts parse as integers.
IsMinSec(gc) ==
    /\ gc # NullClock
    /\ Cardinality(Colons(gc)) = 1
    /\ LET k == CHOOSE c \in Colons(gc) : TRUE
       IN  PyInt(SubSeq(gc, 1, k - 1)).ok /\ PyInt(SubSeq(gc, k + 1, Len(gc))).ok

MinSecValue(gc) ==
    LET k == CHOOSE c \in Colons(gc) : TRUE
    IN  PyInt(SubSeq(gc, 1, k - 1)).val * 60 + PyInt(SubSeq(gc, k + 1, Len(gc))).val

\* C7: convert_game_clock_to_seconds returns minutes*60+seconds for a text MM:SS
\* whose two parts parse as integers ("15:00" gives 900, "00:45" gives 45, "2:5"
\* gives 125), and the missing value for every other input (empty, non-numeric,
\* another number of parts, a null input); it never raises.
C7_ClockConversion ==
    pc = "clock_returned" =>
        /\ err = "none"
        /\ IsMinSec(game_clock) => clock_result = Int_(MinSecValue(game_clock))
        /\ ~IsMinSec(game_clock) => clock_result = NaN
        /\ game_clock = <<"1", "5", ":", "0", "0">> => clock_result = Int_(900)
        /\ game_clock = <<"0", "0", ":", "4", "5">> => clock_result = Int_(45)
        /\ game_clock = <<"2", ":", "5">> => clock_result = Int_(125)
        /\ game_clock \in {<<>>, <<"b", "a", "d">>, NullClock,
                           <<"1", ":", "2", ":", "3">>} => clock_result = NaN

C7_Witness ==
    /\ pc = "clock_returned"
    /\ game_clock = <<"1", "5", ":", "0", "0">>
    /\ clock_result = Int_(900)

---------------------------------------------------------------------------
(* Claims on calculate_player_distances *)

Range(s) == {s[i] : i \in DOMAIN s}

BagOf(s) == [e \in Range(s) |-> Cardinality({i \in DOMAIN s : s[i] = e})]

RECURSIVE FnSum(_)
FnSum(f) ==
    IF DOMAIN f = {} THEN 0
    ELSE LET a == CHOOSE b \in DOMAIN f : TRUE
         IN  f[a] + FnSum([b \in DOMAIN f \ {a} |-> f[b]])

\* The rows of t other than row i that share its (gameId, playId, frameId).
Others(t, i) == {j \in 1..Len(t) : j # i /\ GroupKey(t[j]) = GroupKey(t[i])}

\* The summary the specification asks for row i: the statistics of the distances
\* from row i to every other row of its group.
ExpectedSummary(t, i) ==
    LET d == [j \in Others(t, i) |-> Distance(t[i].x, t[i].y, t[j].x, t[j].y)]
        n == Cardinality(Others(t, i))
        sum == FnSum(d)
        sumsq == FnSum([j \in Others(t, i) |-> d[j] * d[j]])
    IN  [gameId |-> t[i].gameId, playId |-> t[i].playId, frameId |-> t[i].frameId,
         nflId |-> t[i].nflId,
         min_distance |-> Int_(CHOOSE m \in Range(d) : \A o \in Range(d) : m <= o),
         max_distance |-> Int_(CHOOSE m \in Range(d) : \A o \in Range(d) : m >= o),
         mean_distance |-> Int_(sum \div n),
         std_distance |-> Int_(ISqrt(n * sumsq - sum * sum) \div n)]

SwapRows(t, k) ==
    [i \in 1..Len(t) |-> IF i = k THEN t[k + 1] ELSE IF i = k + 1 THEN t[k] ELSE t[i]]

HasSingletonGroup(t) == \E i \in 1..Len(t) : Others(t, i) = {}

\* C3: a group of exactly one player yields a summary row for that player whose
\* four statistics are missing, and calculate_player_distances does not raise.
C3_SingletonGroupMissing ==
    (pc \in {"distances_returned", "aborted"} /\ HasSingletonGroup(df)) =>
        /\ pc = "distances_returned"
        /\ err = "none"
        /\ \A i \in 1..Len(df) : Others(df, i) = {} =>
              \E r \in Range(distance_metrics) :
                 /\ GroupKey(r) = GroupKey(df[i]) /\ r.nflId = df[i].nflId
                 /\ r.min_distance = NaN /\ r.max_distance = NaN
                 /\ r.mean_distance = NaN /\ r.std_distance = NaN

---------------------------------------------------------------------------
(* SpecRoute: filter_player_play_data applied to one player_play.csv *)

InitRoute ==
    /\ pc = "route_called" /\ err = "none"
    /\ player_play_csv \in RouteFiles /\ player_play_data = Idle
    /\ ClockIdle /\ DistIdle /\ MainIdle /\ IngestIdle

FilterPlayerPlayData ==
    /\ pc = "route_called"
    /\ LET r == filter_player_play_data(player_play_csv)
       IN  IF r.error = "none"
           THEN /\ player_play_data' = r.table
                /\ pc' = "route_returned"
                /\ err' = err
           ELSE /\ err' = r.error
                /\ pc' = "aborted"
                /\ player_play_data' = player_play_data
    /\ UNCHANGED <<player_play_csv, clockVars, distVars, mainVars, ingestVars>>

NextRoute == FilterPlayerPlayData

SpecRoute == InitRoute /\ [][NextRoute]_vars

\* The 0-based positions of the rows of the file whose routeRan is not empty,
\* in file order.
RECURSIVE RoutedPositions(_, _)
RoutedPositions(csv, i) ==
    IF i > Len(csv) THEN <<>>
    ELSE (IF csv[i].routeRan # NaN THEN <<i - 1>> ELSE <<>>)
         \o RoutedPositions(csv, i + 1)

\* C8: filter_player_play_data keeps a row if and only if its routeRan is not
\* null, in source order, with exactly the columns gameId, playId, nflId and
\* routeRan (each row under its index label); the result is determined by
\* player_play.csv alone.
C8_RouteFilter ==
    pc = "route_returned" =>
        /\ err = "none"
        /\ [k \in 1..Len(player_play_data) |-> player_play_data[k].idx]
              = RoutedPositions(player_play_csv, 1)
        /\ \A k \in 1..Len(player_play_data) :
              LET r == player_play_data[k]
                  src == player_play_csv[r.idx + 1]
              IN  /\ DOMAIN r = RouteColumns \cup {"idx"}
                  /\ r.routeRan = src.routeRan
                  /\ \A c \in {"gameId", "playId", "nflId"} :
                        r[c] = (IF src[c].t = "str" THEN Int_(src[c].v) ELSE NaN)

C8_Witness ==
    /\ pc = "route_returned"
    /\ Len(player_play_csv) = 2
    /\ Len(player_play_data) = 1
    /\ player_play_data[1].idx = 1
    /\ player_play_data[1].gameId = NaN

---------------------------------------------------------------------------
(* The loops of filter_tracking_data, one action per step *)

\* for week in weeks: the week's file is opened; a missing file raises.
OpenWeek(files) ==
    /\ pc = "ingest_open"
    /\ \E f \in files \cup {NoFile} :
          IF f = NoFile
          THEN /\ err' = "FileNotFoundError"
               /\ pc' = "aborted"
               /\ UNCHANGED <<tracking_file, week_data, offset>>
          ELSE /\ tracking_file' = f
               /\ week_data' = <<>>
               /\ offset' = 0
               /\ pc' = "ingest_chunk"
               /\ err' = err
    /\ UNCHANGED <<chunk_size, week, all_weeks_data, one_block_data>>
    /\ UNCHANGED <<clockVars, distVars, routeVars, mainVars>>

\* for chunk in pd.read_csv(..., chunksize=chunk_size): the next rows of the file
\* are parsed, filtered, tagged and appended.
ReadChunk ==
    /\ pc = "ingest_chunk"
    /\ offset < Len(tracking_file)
    /\ LET n == IF chunk_size < Len(tracking_file) - offset
                THEN chunk_size ELSE Len(tracking_file) - offset
           rows == SubSeq(tracking_file, offset + 1, offset + n)
       IN  /\ week_data' = week_data \o ChunkFrames(rows, offset, valid_nfl_ids, week)
           /\ offset' = offset + n
    /\ UNCHANGED <<pc, err, tracking_file, chunk_size, week, all_weeks_data,
                   one_block_data>>
    /\ UNCHANGED <<clockVars, distVars, routeVars, mainVars>>

\* The file is exhausted: the week's chunks are concatenated, and the loop goes
\* on to the next week.
EndWeek ==
    /\ pc = "ingest_chunk"
    /\ offset >= Len(tracking_file)
    /\ all_weeks_data' = all_weeks_data \o WeekFrames(week_data)
    /\ one_block_data' = one_block_data
          \o WeekFrames(ChunkFrames(tracking_file, 0, valid_nfl_ids, week))
    /\ tracking_file' = <<>>
    /\ IF week < NumWeeks
       THEN week' = week + 1 /\ pc' = "ingest_open"
       ELSE week' = week /\ pc' = "ingest_return"
    /\ UNCHANGED <<err, chunk_size, offset, week_data>>
    /\ UNCHANGED <<clockVars, distVars, routeVars, mainVars>>

AllWeeks(frames) == IF frames # <<>> THEN Concat(frames) ELSE NoColumns

ReturnTracking ==
    /\ pc = "ingest_return"
    /\ tracking_data' = AllWeeks(all_weeks_data)
    /\ pc' = "tracking_done"
    /\ UNCHANGED <<err, plays_csv, pass_play_data, final_tracking_data,
                   valid_nfl_ids, written>>
    /\ UNCHANGED <<clockVars, distVars, routeVars, ingestVars>>

---------------------------------------------------------------------------
(* SpecIngest: filter_tracking_data called with some chunk size *)

TrackRow(g, p, f, n, ft, xy) ==
    [gameId |-> g, playId |-> p, frameId |-> f, nflId |-> n, frameType |-> ft,
     x |-> xy[1], y |-> xy[2]]

IngestRows ==
    {TrackRow(Str(1), Str(1), Str(1), n, ft, <<0, 0>>) :
        n \in {Str(1), Str(2), Txt}, ft \in {BEFORE_SNAP, SNAP, AFTER_SNAP}}

IngestFiles == SeqsUpTo(IngestRows, MaxFileRows)

IngestValidIds == {{Int_(1)}, {Int_(1), Int_(2)}}

InitIngest ==
    /\ pc = "ingest_open" /\ err = "none"
    /\ valid_nfl_ids \in IngestValidIds
    /\ chunk_size \in 1..MaxChunk
    /\ week = 1 /\ offset = 0 /\ tracking_file = <<>>
    /\ week_data = <<>> /\ all_weeks_data = <<>> /\ one_block_data = <<>>
    /\ plays_csv = Idle /\ tracking_data = Idle /\ pass_play_data = Idle
    /\ final_tracking_data = Idle /\ written = Idle
    /\ ClockIdle /\ DistIdle /\ RouteIdle

NextIngest ==
    \/ OpenWeek(IngestFiles)
    \/ ReadChunk
    \/ EndWeek
    \/ ReturnTracking

SpecIngest == InitIngest /\ [][NextIngest]_vars

\* C10: whatever the block size, filter_tracking_data returns the table that
\* filtering each whole week file in one block gives: the surviving rows week by
\* week in file order, each tagged with its week; a block or a week with no
\* surviving row adds nothing and raises no error.
C10_BlockSizeIndependent ==
    pc = "tracking_done" =>
        /\ err = "none"
        /\ tracking_data = AllWeeks(one_block_data)

---------------------------------------------------------------------------
(* The steps of main *)

DefaultChunkSize == 50000

\* Line 114: players.csv is read and the valid identifiers are computed.
FilterPlayersByPosition(rosters) ==
    /\ pc = "start"
    /\ \E f \in rosters \cup {NoFile} :
          LET r == filter_players_by_position(f, valid_positions)
          IN  IF r.error = "none"
              THEN /\ valid_nfl_ids' = r.ids
                   /\ pc' = "ingest_open"
                   /\ err' = err
              ELSE /\ err' = r.error
                   /\ pc' = "aborted"
                   /\ valid_nfl_ids' = valid_nfl_ids
    /\ UNCHANGED <<plays_csv, tracking_data, pass_play_data, final_tracking_data,
                   written>>
    /\ UNCHANGED <<clockVars, distVars, routeVars, ingestVars>>

\* Line 120: plays.csv is read and the tracking rows of the dropback plays are
\* kept.
FilterForPassPlays(playfiles) ==
    /\ pc = "tracking_done"
    /\ \E f \in playfiles \cup {NoFile} :
          LET r == filter_for_pass_plays(f, tracking_data)
          IN  /\ plays_csv' = f
              /\ IF r.error = "none"
                 THEN /\ pass_play_data' = r.table
                      /\ pc' = "pass_done"
                      /\ err' = err
                 ELSE /\ err' = r.error
                      /\ pc' = "aborted"
                      /\ pass_play_data' = pass_play_data
    /\ UNCHANGED <<tracking_data, final_tracking_data, valid_nfl_ids, written>>
    /\ UNCHANGED <<clockVars, distVars, routeVars, ingestVars>>

\* Line 123: plays.csv is read (again, when the pass-play filter has read it)
\* and its context columns are joined to the rows.
MergeWithPlays(playfiles) ==
    /\ pc = "pass_done"
    /\ \E f \in (IF plays_csv = NotRead THEN playfiles \cup {NoFile} ELSE {plays_csv}) :
          LET r == merge_with_plays(f, pass_play_data)
          IN  /\ plays_csv' = f
              /\ IF r.error = "none"
                 THEN /\ final_tracking_data' = r.table
                      /\ pc' = "merged"
                      /\ err' = err
                 ELSE /\ err' = r.error
                      /\ pc' = "aborted"
                      /\ final_tracking_data' = final_tracking_data
    /\ UNCHANGED <<tracking_data, pass_play_data, valid_nfl_ids, written>>
    /\ UNCHANGED <<clockVars, distVars, routeVars, ingestVars>>

\* Line 126
ConvertClocks ==
    /\ pc = "merged"
    /\ final_tracking_data' = AddClockSeconds(final_tracking_data)
    /\ pc' = "clocked"
    /\ UNCHANGED <<err, plays_csv, tracking_data, pass_play_data, valid_nfl_ids,
                   written>>
    /\ UNCHANGED <<clockVars, distVars, routeVars, ingestVars>>

\* Line 129
DistanceMetrics ==
    /\ pc = "clocked"
    /\ LET r == calculate_player_distances(final_tracking_data)
       IN  IF r.error = "none"
           THEN /\ distance_metrics' = r.table
                /\ pc' = "distanced"
                /\ err' = err
           ELSE /\ err' = r.error
                /\ pc' = "aborted"
                /\ distance_metrics' = distance_metrics
    /\ UNCHANGED <<df, clockVars, routeVars, mainVars, ingestVars>>

\* Lines 131 to 138
JoinBack ==
    /\ pc = "distanced"
    /\ LET r == JoinDistances(final_tracking_data, distance_metrics)
       IN  IF r.error = "none"
           THEN /\ final_tracking_data' = r.table
                /\ pc' = "joined"
                /\ err' = err
           ELSE /\ err' = r.error
                /\ pc' = "aborted"
                /\ final_tracking_data' = final_tracking_data
    /\ UNCHANGED <<plays_csv, tracking_data, pass_play_data, valid_nfl_ids, written>>
    /\ UNCHANGED <<clockVars, distVars, routeVars, ingestVars>>

\* Line 142: final_tracking_data.csv is written.
WriteTracking ==
    /\ pc = "joined"
    /\ written' = written \cup {"final_tracking_data.csv"}
    /\ pc' = "tracking_written"
    /\ UNCHANGED <<err, plays_csv, tracking_data, pass_play_data,
                   final_tracking_data, valid_nfl_ids>>
    /\ UNCHANGED <<clockVars, distVars, routeVars, ingestVars>>

\* Line 146: player_play.csv is read, after the tracking table is written.
FilterRoutes(routefiles) ==
    /\ pc = "tracking_written"
    /\ \E f \in routefiles \cup {NoFile} :
          LET r == filter_player_play_data(f)
          IN  /\ player_play_csv' = f
              /\ IF r.error = "none"
                 THEN /\ player_play_data' = r.table
                      /\ pc' = "route_filtered"
                      /\ err' = err
                 ELSE /\ err' = r.error
                      /\ pc' = "aborted"
                      /\ player_play_data' = player_play_data
    /\ UNCHANGED <<clockVars, distVars, mainVars, ingestVars>>

\* Line 150: final_player_play_data.csv is written.
WriteRoutes ==
    /\ pc = "route_filtered"
    /\ written' = written \cup {"final_player_play_data.csv"}
    /\ pc' = "done"
    /\ UNCHANGED <<err, plays_csv, tracking_data, pass_play_data,
                   final_tracking_data, valid_nfl_ids>>
    /\ UNCHANGED <<clockVars, distVars, routeVars, ingestVars>>

---------------------------------------------------------------------------
(* Spec: a run of main *)

PlayerRow(n, p) == [nflId |-> n, position |-> p]

MainRosters ==
    SeqsUpTo({PlayerRow(n, p) : n \in {Str(1), Str(2), Txt}, p \in {QB, K}}, MaxPlayers)

MainTrackingFiles ==
    SeqsUpTo({TrackRow(Str(1), Str(1), Str(1), n, ft, <<0, 0>>) :
                 n \in {Str(1), Str(2), NaN}, ft \in {SNAP, AFTER_SNAP}},
             MainFileRows)

PlayRow(g, p, d, gc) ==
    [gameId |-> g, playId |-> p, isDropback |-> d, gameClock |-> gc,
     quarter |-> Int_(1)]

MainPlayFiles ==
    {<<>>} \cup {<<PlayRow(Str(1), Str(1), d, <<"1", "5", ":", "0", "0">>)>> :
                    d \in {"True", "False"}}

MainRouteFiles ==
    {<<>>, <<RouteRow(Str(1), Str(1), Str(1), Label(1))>>,
     <<RouteRow(Txt, Str(1), Str(1), Label(1))>>}

Init ==
    /\ pc = "start" /\ err = "none"
    /\ valid_nfl_ids = {} /\ written = {}
    /\ plays_csv = NotRead /\ player_play_csv = NotRead
    /\ tracking_data = NoColumns /\ pass_play_data = NoColumns
    /\ final_tracking_data = NoColumns /\ distance_metrics = NoColumns
    /\ player_play_data = NoColumns
    /\ chunk_size = DefaultChunkSize
    /\ week = 1 /\ offset = 0 /\ tracking_file = <<>>
    /\ week_data = <<>> /\ all_weeks_data = <<>> /\ one_block_data = <<>>
    /\ df = Idle /\ ClockIdle

Next ==
    \/ FilterPlayersByPosition(MainRosters)
    \/ OpenWeek(MainTrackingFiles)
    \/ ReadChunk
    \/ EndWeek
    \/ ReturnTracking
    \/ FilterForPassPlays(MainPlayFiles)
    \/ MergeWithPlays(MainPlayFiles)
    \/ ConvertClocks
    \/ DistanceMetrics
    \/ JoinBack
    \/ WriteTracking
    \/ FilterRoutes(MainRouteFiles)
    \/ WriteRoutes

Spec == Init /\ [][Next]_vars

\* The rows of a table; none for the table without columns.
Rows(t) == IF t = NoColumns THEN {} ELSE Range(t)

\* C1: every row of the tracking table, from filter_tracking_data to the final
\* output, has an nflId of the array filter_players_by_position returned and a
\* frameType of BEFORE_SNAP or SNAP; no later stage adds a row that has not.
C1_ValidPlayersAndFrames ==
    \A t \in {tracking_data, pass_play_data, final_tracking_data} :
       \A r \in Rows(t) :
          /\ r.nflId \in valid_nfl_ids
          /\ r.frameType \in {BEFORE_SNAP, SNAP}

C1_Witness ==
    /\ pc = "done"
    /\ valid_nfl_ids = {Int_(1), NaN}
    /\ Len(final_tracking_data) = 2
    /\ final_tracking_data[1].nflId # final_tracking_data[2].nflId
    /\ written = {"final_tracking_data.csv", "final_player_play_data.csv"}

\* C4: a run of main ends with both output files written, or aborts at the
\* first missing source file with neither written; an aborted run never leaves
\* one output file without the other.
C4_BothOutputsOrNone ==
    /\ pc = "done" => written = {"final_tracking_data.csv", "final_player_play_data.csv"}
    /\ pc = "aborted" => written = {}

\* C5: a row whose identifier does not parse as an integer is absent from the
\* output of every stage that coerces identifiers, and no error is raised: the
\* array filter_players_by_position returns holds integers only, and no row of
\* the tracking tables or of the route table carries a missing identifier.
C5_UncoercibleRowsDropped ==
    /\ \A id \in valid_nfl_ids : id.t = "int"
    /\ \A t \in {tracking_data, pass_play_data, final_tracking_data, player_play_data} :
          \A r \in Rows(t) : \A c \in {"gameId", "playId", "nflId"} : r[c].t = "int"

---------------------------------------------------------------------------
(* SpecPass: lines 120 to 138 of main from some ingested tracking table;    *)
(* SpecMerge: lines 123 to 138 from some table handed to merge_with_plays.  *)

JoinPoint(n) == IF n = 1 THEN <<0, 0>> ELSE <<3, 4>>

JoinRows ==
    {[gameId |-> Int_(1), playId |-> Int_(p), frameId |-> Int_(1), nflId |-> Int_(n),
      frameType |-> SNAP, x |-> JoinPoint(n)[1], y |-> JoinPoint(n)[2], week |-> 1] :
        p \in {1, 2}, n \in {1, 2}}

JoinTables == {Indexed(t) : t \in SeqsUpTo(JoinRows, MaxJoinRows)}

JoinClock(p) == IF p = Str(1) THEN <<"1", "5", ":", "0", "0">> ELSE <<"b">>

JoinPlayFiles ==
    SeqsUpTo({PlayRow(Str(1), p, d, JoinClock(p)) :
                 p \in {Str(1), Str(2)}, d \in {"true", "False", "yes", ""}},
             MaxPlays)

MergePlayFiles ==
    SeqsUpTo({PlayRow(Str(1), p, "true", JoinClock(p)) : p \in {Str(1), Str(2)}},
             MaxPlays)

InitJoin ==
    /\ err = "none"
    /\ valid_nfl_ids = {} /\ written = {}
    /\ plays_csv = NotRead /\ player_play_csv = NotRead
    /\ final_tracking_data = NoColumns /\ distance_metrics = NoColumns
    /\ player_play_data = NoColumns
    /\ df = Idle /\ ClockIdle /\ IngestIdle

InitPass ==
    /\ pc = "tracking_done"
    /\ tracking_data \in JoinTables
    /\ pass_play_data = NoColumns
    /\ InitJoin

NextPass ==
    \/ FilterForPassPlays(JoinPlayFiles)
    \/ MergeWithPlays(JoinPlayFiles)
    \/ ConvertClocks
    \/ DistanceMetrics
    \/ JoinBack

SpecPass == InitPass /\ [][NextPass]_vars

InitMerge ==
    /\ pc = "pass_done"
    /\ tracking_data = NoColumns
    /\ pass_play_data \in JoinTables
    /\ InitJoin

NextMerge ==
    \/ MergeWithPlays(MergePlayFiles)
    \/ ConvertClocks
    \/ DistanceMetrics
    \/ JoinBack

SpecMerge == InitMerge /\ [][NextMerge]_vars

\* The text of an isDropback cell reads true, whatever its case.
ReadsTrue(s) == s \in {"True", "true", "TRUE"}

\* The (gameId, playId) pairs, as integers, of the plays whose isDropback is true.
DropbackPairs(csv) ==
    {<<ToNumeric(csv[i].gameId), ToNumeric(csv[i].playId)>> :
        i \in {j \in 1..Len(csv) : ReadsTrue(csv[j].isDropback)}}

\* C2: every (gameId, playId) of the pass-play table and of the final tracking
\* table belongs to a play whose isDropback is true in plays.csv (true in any
\* case; false, missing or any other value is not); the rows of every other
\* play are removed by filter_for_pass_plays.
C2_OnlyDropbackPlays ==
    (plays_csv # NotRead /\ plays_csv # NoFile) =>
        /\ \A t \in {pass_play_data, final_tracking_data} :
              \A r \in Rows(t) : <<r.gameId, r.playId>> \in DropbackPairs(plays_csv)
        /\ pc = "pass_done" =>
              \A r \in Rows(tracking_data) :
                 (<<r.gameId, r.playId>> \notin DropbackPairs(plays_csv))
                    => \A q \in Rows(pass_play_data) :
                          <<q.gameId, q.playId, q.nflId>> # <<r.gameId, r.playId, r.nflId>>

C2_Witness ==
    /\ pc = "joined"
    /\ Len(final_tracking_data) = 2
    /\ Len(plays_csv) = 2
    /\ \E i \in 1..2 : plays_csv[i].isDropback = "true"
    /\ \E i \in 1..2 : plays_csv[i].isDropback = ""

\* A row without its index label and without the columns in drop.
Restrict(r, cols) == [c \in cols |-> r[c]]

InputColumns ==
    {"gameId", "playId", "frameId", "nflId", "frameType", "x", "y", "week"}

PlayPairs(csv) ==
    {<<ToNumeric(csv[i].gameId), ToNumeric(csv[i].playId)>> : i \in 1..Len(csv)}

UniquePlays(csv) ==
    \A i, j \in 1..Len(csv) :
       (ToNumeric(csv[i].gameId) = ToNumeric(csv[j].gameId)
           /\ ToNumeric(csv[i].playId) = ToNumeric(csv[j].playId)) => i = j

UniqueTracking(t) ==
    \A i, j \in 1..Len(t) :
       (GroupKey(t[i]) = GroupKey(t[j]) /\ t[i].nflId = t[j].nflId) => i = j

\* C9: merge_with_plays and the join of the distance summaries are left joins:
\* every row handed to merge_with_plays appears in the table they give, the play
\* context missing when no play has its (gameId, playId); when (gameId, playId) is
\* unique in plays.csv and (gameId, playId, frameId, nflId) is unique in the
\* tracking table, every row appears exactly once, so the row count is kept.
C9_LeftJoinsKeepRows ==
    pc \in {"merged", "clocked", "distanced", "joined"} =>
        /\ \A r \in Rows(pass_play_data) :
              \E q \in Rows(final_tracking_data) :
                 Restrict(q, InputColumns) = Restrict(r, InputColumns)
        /\ \A q \in Rows(final_tracking_data) :
              (<<q.gameId, q.playId>> \notin PlayPairs(plays_csv))
                 => q.gameClock = NullClock /\ q.quarter = NaN
        /\ (UniquePlays(plays_csv) /\ UniqueTracking(pass_play_data)) =>
              /\ Len(final_tracking_data) = Len(pass_play_data)
              /\ \A i \in 1..Len(pass_play_data) :
                    Restrict(final_tracking_data[i], InputColumns)
                       = Restrict(pass_play_data[i], InputColumns)

C9_Witness ==
    /\ pc = "joined"
    /\ UniquePlays(plays_csv) /\ UniqueTracking(pass_play_data)
    /\ Len(pass_play_data) = 2
    /\ Len(final_tracking_data) = 2
    /\ Len(plays_csv) = 1
    /\ \E q \in Rows(final_tracking_data) : q.gameClock = NullClock

====
